---- MODULE Spec2Model ----
(***************************************************************************)
(* A model of knott: the collision-checked registry (lookup.rs), the       *)
(* bounded coordinates (coords.rs), the suffix resolution (specs.rs) and   *)
(* the sharded state store with its transactions (state.rs).               *)
(*                                                                         *)
(* Five specifications share the module, one per subsystem:                *)
(*   Spec        the state store: State::new, start_tx, apply, commit,     *)
(*               export_rows                                               *)
(*   SpecLookup  LookupTable::push and TryFrom<Vec<V>>                     *)
(*   SpecCoords  TryFrom<u32> for Kind and for Pos                         *)
(*   SpecSuffix  convert_suffixes, SuffixSpec::is_valid and find_by_label  *)
(*   SpecCompile TryFrom<GameDef> for GameSpec                             *)
(***************************************************************************)
EXTENDS Integers, Sequences, FiniteSets, TLC

VARIABLES
    \* ---- state store (state.rs)
    spec,             \* the GameSpec the State was built from
    shards,           \* State.shards : HashMap<Pos, Shard>
    tx,               \* TRUE while a Transaction borrows the State
    cmd,              \* the command of the latest apply (Option)
    result,           \* what the latest apply returned (Option)
    rows,             \* what the latest export_rows returned (Option)
    actual_rows,      \* assert_rows: the exported rows after the caller's sort
    applied,          \* history: the commands apply answered Ok to, as a bag
    ncmds,            \* history: the number of apply calls so far
    panicked,         \* the process aborted (an arithmetic overflow panic)
    twin,             \* the shards of a second State, built from the same spec with
                      \* separate and hidden negated and given the same commands
    \* ---- registry (lookup.rs)
    table,            \* a LookupTable: values and label_index
    item,             \* the value of the latest push (Option)
    push_result,      \* what the latest push returned (Option)
    try_input,        \* the Vec handed to the latest try_from (Option)
    try_result,       \* what the latest try_from returned (Option)
    \* ---- coordinates (coords.rs)
    value,            \* the u32 under conversion
    kind_result,      \* Kind::try_from(value) (Option)
    pos_result,       \* Pos::try_from(value) (Option)
    \* ---- suffix resolution (specs.rs)
    range,            \* Option<SuffixRangeDef>
    suffixes,         \* Vec<SuffixDef>
    suffix_result,    \* convert_suffixes(range, suffixes) (Option)
    suffix_query,     \* the latest is_valid / find_by_label call and its answer
    \* ---- compilation (specs.rs)
    game_def,         \* the GameDef handed to GameSpec::try_from
    compile_result    \* GameSpec::try_from(game_def) (Option)

storeVars  == <<spec, shards, tx, cmd, result, rows, actual_rows, applied, ncmds,
                panicked, twin>>
lookupVars == <<table, item, push_result, try_input, try_result>>
coordVars  == <<value, kind_result, pos_result>>
suffixVars == <<range, suffixes, suffix_result, suffix_query>>
compileVars == <<game_def, compile_result>>
vars == <<storeVars, lookupVars, coordVars, suffixVars, compileVars>>

(***************************************************************************)
(* Option and Result values.                                               *)
(***************************************************************************)
None == [tag |-> "None"]
Some(v) == [tag |-> "Some", val |-> v]
Ok(v) == [tag |-> "Ok", val |-> v]
Err(e) == [tag |-> "Err", err |-> e]
Unit == [tag |-> "Unit"]

EmptyMap == [k \in {} |-> k]
Insert(m, k, v) == [x \in DOMAIN m \cup {k} |-> IF x = k THEN v ELSE m[x]]

(***************************************************************************)
(* u32 values are kept as two 16-bit halves, so that the whole 32-bit      *)
(* range, and sums beyond it, stay within the checker's integers.          *)
(***************************************************************************)
TwoPow16 == 2^16
U32(h, l) == [hi |-> h, lo |-> l]
U32FromNat(n) == U32(n \div TwoPow16, n % TwoPow16)
U32Gt(a, b) == a.hi > b.hi \/ (a.hi = b.hi /\ a.lo > b.lo)
U32_MAX == U32(TwoPow16 - 1, TwoPow16 - 1)
\* the exact sum of two u32 (hi is not reduced)
WideAdd(a, b) ==
    LET l == a.lo + b.lo
    IN  [hi |-> a.hi + b.hi + (l \div TwoPow16), lo |-> l % TwoPow16]
Overflows(w) == w.hi >= TwoPow16
Wrap(w) == U32(w.hi % TwoPow16, w.lo)

(***************************************************************************)
(* lookup.rs: LookupTable<I, V>.                                           *)
(***************************************************************************)
\* HasId::id: SuffixRow answers its suffix, every other value its id field
id_of(v) == IF "suffix" \in DOMAIN v THEN v.suffix ELSE v.id
\* Labelled::label
label_of(v) == v.label

IdCollision(i) == [tag |-> "IdCollision", id |-> i]
LabelCollision(l) == [tag |-> "LabelCollision", label |-> l]

LookupTable_new == [values |-> EmptyMap, label_index |-> EmptyMap]

\* a push that looks at the label before the id
LookupTable_push_label_first(t, v) ==
    IF label_of(v) \notin DOMAIN t.label_index
    THEN IF id_of(v) \notin DOMAIN t.values
         THEN [table  |-> [values      |-> Insert(t.values, id_of(v), v),
                           label_index |-> Insert(t.label_index, label_of(v), id_of(v))],
               result |-> Ok(Unit)]
         ELSE [table |-> t, result |-> Err(IdCollision(id_of(v)))]
    ELSE [table |-> t, result |-> Err(LabelCollision(label_of(v)))]

\* a push that stores with HashMap::insert before it reports the id collision
LookupTable_push_overwriting(t, v) ==
    IF id_of(v) \notin DOMAIN t.values
    THEN IF label_of(v) \notin DOMAIN t.label_index
         THEN [table  |-> [values      |-> Insert(t.values, id_of(v), v),
                           label_index |-> Insert(t.label_index, label_of(v), id_of(v))],
               result |-> Ok(Unit)]
         ELSE [table |-> t, result |-> Err(LabelCollision(label_of(v)))]
    ELSE [table  |-> [t EXCEPT !.values = Insert(@, id_of(v), v)],
          result |-> Err(IdCollision(id_of(v)))]

\* a push that does not look at the label index before it inserts
LookupTable_push_unchecked_label(t, v) ==
    IF id_of(v) \notin DOMAIN t.values
    THEN [table  |-> [values      |-> Insert(t.values, id_of(v), v),
                      label_index |-> Insert(t.label_index, label_of(v), id_of(v))],
          result |-> Ok(Unit)]
    ELSE [table |-> t, result |-> Err(IdCollision(id_of(v)))]

\* push: the table after the call and the Result it returns
LookupTable_push(t, v) ==
    IF id_of(v) \notin DOMAIN t.values
    THEN IF label_of(v) \notin DOMAIN t.label_index
         THEN [table  |-> [values      |-> Insert(t.values, id_of(v), v),
                           label_index |-> Insert(t.label_index, label_of(v), id_of(v))],
               result |-> Ok(Unit)]
         ELSE [table |-> t, result |-> Err(LabelCollision(label_of(v)))]
    ELSE [table |-> t, result |-> Err(IdCollision(id_of(v)))]

LookupTable_contains_id(t, i) == i \in DOMAIN t.values

LookupTable_find(t, i) == IF i \in DOMAIN t.values THEN Some(t.values[i]) ELSE None

\* find_by_label indexes values with the id found: a missing id panics
LookupTable_find_by_label(t, l) ==
    IF l \in DOMAIN t.label_index
    THEN IF t.label_index[l] \in DOMAIN t.values
         THEN Some(t.values[t.label_index[l]])
         ELSE [tag |-> "Panic"]
    ELSE None

\* try_from(values): the loop over the Vec; examined counts the push calls made
RECURSIVE try_from_loop(_, _, _)
try_from_loop(t, values, n) ==
    IF values = <<>>
    THEN [result |-> Ok(t), examined |-> n]
    ELSE LET r == LookupTable_push(t, Head(values))
         IN  IF r.result.tag = "Err"
             THEN [result |-> Err(r.result.err), examined |-> n + 1]
             ELSE try_from_loop(r.table, Tail(values), n + 1)

\* a try_from that walks the Vec from its end
LookupTable_try_from_reversed(values) ==
    try_from_loop(LookupTable_new,
                  [i \in 1..Len(values) |-> values[Len(values) + 1 - i]], 0)

LookupTable_try_from(values) == try_from_loop(LookupTable_new, values, 0)

(***************************************************************************)
(* coords.rs: Kind, Pos, Suffix.                                           *)
(***************************************************************************)
MAX_KIND == 9999
MAX_POS == 9999
InvalidKind(u) == [tag |-> "InvalidKind", value |-> u]
InvalidPos(u) == [tag |-> "InvalidPos", value |-> u]
\* `value as u16` keeps the low 16 bits
as_u16(v) == v.lo
\* NonZeroU16::new: None for zero
NonZeroU16_new(n) == IF n = 0 THEN None ELSE Some(n)
Kind(inner) == [tag |-> "Kind", inner |-> inner]
Pos(inner) == [tag |-> "Pos", inner |-> inner]

\* a Kind::try_from without the test against MAX_KIND
Kind_try_from_unbounded(v) ==
    LET nz == NonZeroU16_new(as_u16(v))
    IN  IF nz.tag = "None" THEN Err(InvalidKind(v)) ELSE Ok(Kind(nz.val))

Kind_try_from(v) ==
    IF U32Gt(v, U32FromNat(MAX_KIND))
    THEN Err(InvalidKind(v))
    ELSE LET nz == NonZeroU16_new(as_u16(v))
         IN  IF nz.tag = "None" THEN Err(InvalidKind(v)) ELSE Ok(Kind(nz.val))
Kind_as_u32(k) == U32(0, k.inner)
Kind_as_usize(k) == k.inner

Pos_try_from(v) ==
    IF U32Gt(v, U32FromNat(MAX_POS))
    THEN Err(InvalidPos(v))
    ELSE LET nz == NonZeroU16_new(as_u16(v))
         IN  IF nz.tag = "None" THEN Err(InvalidPos(v)) ELSE Ok(Pos(nz.val))
Pos_as_u32(p) == U32(0, p.inner)
Pos_as_usize(p) == p.inner

\* `id as i32`: the same 32 bits read as a two's complement number
as_i32(u) ==
    IF u.hi >= TwoPow16 \div 2
    THEN (u.hi - TwoPow16) * TwoPow16 + u.lo
    ELSE u.hi * TwoPow16 + u.lo

(***************************************************************************)
(* specs.rs: suffix rows, suffix ranges, convert_suffixes.                 *)
(***************************************************************************)
SuffixRangeDef(min, max) == [min |-> min, max |-> max]
SuffixDef(l, i) == [label |-> l, id |-> i]
SuffixRow(s, l) == [suffix |-> s, label |-> l]
SuffixRange(min, max) == [min |-> min, max |-> max]
SuffixSpec_Empty == [tag |-> "Empty"]
SuffixSpec_Range(r) == [tag |-> "Range", range |-> r]
SuffixSpec_Table(t) == [tag |-> "Table", table |-> t]
SuffixesAndRangeDefined == [tag |-> "SuffixesAndRangeDefined"]
InvalidSuffixRange(min, max) == [tag |-> "InvalidSuffixRange", min |-> min, max |-> max]
InvalidSuffixRow(e) == [tag |-> "InvalidSuffixRow", err |-> e]
InvalidSuffixTable(c) == [tag |-> "InvalidSuffixTable", collision |-> c]

\* TryFrom<SuffixDef> for SuffixRow: never fails
SuffixRow_try_from(def) == Ok(SuffixRow(as_i32(def.id), def.label))

\* a TryFrom<SuffixRangeDef> that lets min = max through
SuffixRange_try_from_non_strict(def) ==
    IF def.min <= def.max
    THEN Ok(SuffixRange(def.min, def.max))
    ELSE Err(InvalidSuffixRange(def.min, def.max))

\* TryFrom<SuffixRangeDef> for SuffixRange
SuffixRange_try_from(def) ==
    IF def.min < def.max
    THEN Ok(SuffixRange(def.min, def.max))
    ELSE Err(InvalidSuffixRange(def.min, def.max))

\* a contains_suffix that leaves both ends out
SuffixRange_contains_suffix_exclusive(r, sx) == r.min < sx /\ sx < r.max

SuffixRange_contains_suffix(r, sx) == r.min <= sx /\ sx <= r.max

\* an is_valid for which Empty admits every suffix
SuffixSpec_is_valid_empty_any(sp, sx) ==
    CASE sp.tag = "Empty" -> TRUE
      [] sp.tag = "Range" -> SuffixRange_contains_suffix(sp.range, sx)
      [] sp.tag = "Table" -> LookupTable_contains_id(sp.table, sx)

SuffixSpec_is_valid(sp, sx) ==
    CASE sp.tag = "Empty" -> sx = 0
      [] sp.tag = "Range" -> SuffixRange_contains_suffix(sp.range, sx)
      [] sp.tag = "Table" -> LookupTable_contains_id(sp.table, sx)

\* Option::map(|r| r.suffix)
map_suffix(o) == IF o.tag = "Some" THEN Some(o.val.suffix) ELSE o

\* a find_by_label that answers with the lowest suffix of the table
SuffixSpec_find_by_label_lowest(sp, l) ==
    CASE sp.tag = "Empty" -> None
      [] sp.tag = "Range" -> None
      [] sp.tag = "Table" ->
            IF l \in DOMAIN sp.table.label_index
            THEN Some(CHOOSE x \in DOMAIN sp.table.values :
                         \A y \in DOMAIN sp.table.values : x <= y)
            ELSE None

SuffixSpec_find_by_label(sp, l) ==
    CASE sp.tag = "Empty" -> None
      [] sp.tag = "Range" -> None
      [] sp.tag = "Table" -> map_suffix(LookupTable_find_by_label(sp.table, l))

\* the loop of convert_suffixes over the rows: the first row that does not
\* convert ends it
RECURSIVE convert_rows(_, _)
convert_rows(defs, out) ==
    IF defs = <<>>
    THEN Ok(out)
    ELSE LET row == SuffixRow_try_from(Head(defs))
         IN  IF row.tag = "Err"
             THEN Err(InvalidSuffixRow(row.err))
             ELSE convert_rows(Tail(defs), Append(out, row.val))

\* a convert_suffixes that converts the range before it looks at the rows
convert_suffixes_range_first(rng, sfx) ==
    IF rng.tag = "Some"
    THEN LET r == SuffixRange_try_from(rng.val)
         IN  IF r.tag = "Err" THEN r
             ELSE IF sfx # <<>> THEN Err(SuffixesAndRangeDefined)
             ELSE Ok(SuffixSpec_Range(r.val))
    ELSE Ok(SuffixSpec_Empty)

\* a convert_suffixes that reports every table collision by the label of the
\* row that collided
convert_suffixes_label_reported(rng, sfx) ==
    IF rng.tag = "Some"
    THEN IF sfx # <<>>
         THEN Err(SuffixesAndRangeDefined)
         ELSE LET r == SuffixRange_try_from(rng.val)
              IN  IF r.tag = "Ok" THEN Ok(SuffixSpec_Range(r.val)) ELSE r
    ELSE IF sfx # <<>>
         THEN LET t == LookupTable_try_from(convert_rows(sfx, <<>>).val)
              IN  IF t.result.tag = "Ok"
                  THEN Ok(SuffixSpec_Table(t.result.val))
                  ELSE Err(InvalidSuffixTable(LabelCollision(sfx[t.examined].label)))
         ELSE Ok(SuffixSpec_Empty)

convert_suffixes(rng, sfx) ==
    IF rng.tag = "Some"
    THEN IF sfx # <<>>
         THEN Err(SuffixesAndRangeDefined)
         ELSE LET r == SuffixRange_try_from(rng.val)
              IN  IF r.tag = "Ok" THEN Ok(SuffixSpec_Range(r.val)) ELSE r
    ELSE IF sfx # <<>>
         THEN LET converted == convert_rows(sfx, <<>>)
              IN  IF converted.tag = "Err"
                  THEN converted
                  ELSE LET t == LookupTable_try_from(converted.val).result
                       IN  IF t.tag = "Ok"
                           THEN Ok(SuffixSpec_Table(t.val))
                           ELSE Err(InvalidSuffixTable(t.err))
         ELSE Ok(SuffixSpec_Empty)

(***************************************************************************)
(* specs.rs: KindSpec, PosSpec, GameSpec and their conversions from the    *)
(* definitions of defs.rs.                                                 *)
(***************************************************************************)
KindDef(l, i, rng, sfx) == [label |-> l, id |-> i, suffix_range |-> rng, suffixes |-> sfx]
PosDef(l, i, rng, sfx, sep, ord, hid) ==
    [label |-> l, id |-> i, suffix_range |-> rng, suffixes |-> sfx,
     separate |-> sep, ordered |-> ord, hidden |-> hid]
GameDef(l, mn, mx, kinds, poss) ==
    [label |-> l, min_players |-> mn, max_players |-> mx,
     kind_defs |-> kinds, pos_defs |-> poss]

KindSpec(l, i, sx) == [label |-> l, id |-> i, suffixes |-> sx]
PosSpec(l, i, sep, ord, hid) ==
    [label |-> l, id |-> i, suffixes |-> SuffixSpec_Empty,
     separate |-> sep, ordered |-> ord, hidden |-> hid]

InvalidId(u) == [tag |-> "InvalidId", value |-> u]
Error_InvalidNumPlayers(u) == [tag |-> "InvalidNumPlayers", value |-> u]
Error_InvalidPos(e) == [tag |-> "InvalidPos", err |-> e]
Error_InvalidPosTable(c) == [tag |-> "InvalidPosTable", collision |-> c]
Error_InvalidKind(e) == [tag |-> "InvalidKind", err |-> e]
Error_InvalidKindTable(c) == [tag |-> "InvalidKindTable", collision |-> c]

\* From<InvalidKind> for ItemError and From<InvalidPos> for ItemError
ItemError_from(e) == InvalidId(e.value)

\* a TryFrom<KindDef> that converts the suffixes before the id
KindSpec_try_from_suffixes_first(def) ==
    LET sfx == convert_suffixes(def.suffix_range, def.suffixes)
    IN  IF sfx.tag = "Err"
        THEN sfx
        ELSE LET id == Kind_try_from(def.id)
             IN  IF id.tag = "Err"
                 THEN Err(ItemError_from(id.err))
                 ELSE Ok(KindSpec(def.label, id.val, sfx.val))

\* TryFrom<KindDef> for KindSpec: the id first, then the suffixes
KindSpec_try_from(def) ==
    LET id == Kind_try_from(def.id)
    IN  IF id.tag = "Err"
        THEN Err(ItemError_from(id.err))
        ELSE LET sfx == convert_suffixes(def.suffix_range, def.suffixes)
             IN  IF sfx.tag = "Err"
                 THEN sfx
                 ELSE Ok(KindSpec(def.label, id.val, sfx.val))

\* TryFrom<PosDef> for PosSpec: the id first, then the suffixes
PosSpec_try_from(def) ==
    LET id == Pos_try_from(def.id)
    IN  IF id.tag = "Err"
        THEN Err(ItemError_from(id.err))
        ELSE LET sfx == convert_suffixes(def.suffix_range, def.suffixes)
             IN  IF sfx.tag = "Err"
                 THEN sfx
                 ELSE Ok([PosSpec(def.label, id.val, def.separate, def.ordered,
                                  def.hidden) EXCEPT !.suffixes = sfx.val])

\* a loop over kind_defs that leaves out a kind that does not convert
RECURSIVE convert_kind_defs_skipping(_, _)
convert_kind_defs_skipping(defs, out) ==
    IF defs = <<>>
    THEN Ok(out)
    ELSE LET sp == KindSpec_try_from(Head(defs))
         IN  IF sp.tag = "Err"
             THEN convert_kind_defs_skipping(Tail(defs), out)
             ELSE convert_kind_defs_skipping(Tail(defs), Append(out, sp.val))

\* the loop of GameSpec::try_from over kind_defs: the first kind that does
\* not convert ends it with Error::InvalidKind
RECURSIVE convert_kind_defs(_, _)
convert_kind_defs(defs, out) ==
    IF defs = <<>>
    THEN Ok(out)
    ELSE LET sp == KindSpec_try_from(Head(defs))
         IN  IF sp.tag = "Err"
             THEN Err(Error_InvalidKind(sp.err))
             ELSE convert_kind_defs(Tail(defs), Append(out, sp.val))

\* the loop of GameSpec::try_from over pos_defs
RECURSIVE convert_pos_defs(_, _)
convert_pos_defs(defs, out) ==
    IF defs = <<>>
    THEN Ok(out)
    ELSE LET sp == PosSpec_try_from(Head(defs))
         IN  IF sp.tag = "Err"
             THEN Err(Error_InvalidPos(sp.err))
             ELSE convert_pos_defs(Tail(defs), Append(out, sp.val))

\* a kind table in which a later kind takes the place of the one it collides with
RECURSIVE overwrite_loop(_, _)
overwrite_loop(t, values) ==
    IF values = <<>>
    THEN t
    ELSE overwrite_loop([values      |-> Insert(t.values, id_of(Head(values)), Head(values)),
                         label_index |-> Insert(t.label_index, label_of(Head(values)),
                                                id_of(Head(values)))],
                        Tail(values))
kind_table_overwriting(specs) == Ok(overwrite_loop(LookupTable_new, specs))

\* kind_specs.try_into().map_err(Error::InvalidKindTable)
kind_table(specs) ==
    LET t == LookupTable_try_from(specs).result
    IN  IF t.tag = "Err" THEN Err(Error_InvalidKindTable(t.err)) ELSE t

\* pos_specs.try_into().map_err(Error::InvalidPosTable)
pos_table(specs) ==
    LET t == LookupTable_try_from(specs).result
    IN  IF t.tag = "Err" THEN Err(Error_InvalidPosTable(t.err)) ELSE t

\* a narrowing that keeps the low 8 bits, as `input as u8` does
convert_player_num_truncating(input) == Ok(input.lo % 256)

\* u8::try_from(input), the failure mapped to InvalidNumPlayers(input)
convert_player_num(input) ==
    IF U32Gt(input, U32FromNat(255))
    THEN Err(Error_InvalidNumPlayers(input))
    ELSE Ok(input.lo)

\* TryFrom<GameDef> for GameSpec: kinds, kind table, positions, position
\* table, min_players, max_players, each `?` returning the first error
GameSpec_try_from(def) ==
    LET ks == convert_kind_defs(def.kind_defs, <<>>)
    IN  IF ks.tag = "Err" THEN ks ELSE
    LET kt == kind_table(ks.val)
    IN  IF kt.tag = "Err" THEN kt ELSE
    LET ps == convert_pos_defs(def.pos_defs, <<>>)
    IN  IF ps.tag = "Err" THEN ps ELSE
    LET pt == pos_table(ps.val)
    IN  IF pt.tag = "Err" THEN pt ELSE
    LET mn == convert_player_num(def.min_players)
    IN  IF mn.tag = "Err" THEN mn ELSE
    LET mx == convert_player_num(def.max_players)
    IN  IF mx.tag = "Err" THEN mx ELSE
        Ok([label       |-> def.label,
            min_players |-> mn.val,
            max_players |-> mx.val,
            kind_specs  |-> kt.val,
            pos_specs   |-> pt.val])

(***************************************************************************)
(* state.rs: shards, State, Transaction.                                   *)
(***************************************************************************)
QPos(p, r, s) == [pos |-> p, region |-> r, suffix |-> s]
QKind(k, s) == [kind |-> k, suffix |-> s]
ExportRow(p, k, c) == [pos |-> p, kind |-> k, count |-> c]
Key(s, k) == [pos_suffix |-> s, kind |-> k]
CreatePieces(p, k, c) == [pos |-> p, kind |-> k, count |-> c]
NoSuchPos(p) == [tag |-> "NoSuchPos", pos |-> p]

UnorderedShard_new(pos, region) == [pos |-> pos, region |-> region, counts |-> EmptyMap]
OrderedShard_new(pos, region) == [pos |-> pos, region |-> region, counts |-> EmptyMap]
Regional_new == [regions |-> EmptyMap]

\* a State::new that overlooks the ordered flag
State_new_all_unordered(gs) ==
    [p \in DOMAIN gs.pos_specs.values |-> [tag |-> "Unordered", regional |-> Regional_new]]

\* a State::new that gives a hidden position no shard
State_new_hidden_untracked(gs) ==
    [p \in {q \in DOMAIN gs.pos_specs.values : ~gs.pos_specs.values[q].hidden} |->
        IF gs.pos_specs.values[p].ordered
        THEN [tag |-> "Ordered", regional |-> Regional_new]
        ELSE [tag |-> "Unordered", regional |-> Regional_new]]

\* State::new: one shard per entry of spec.pos_specs
State_new(gs) ==
    [p \in DOMAIN gs.pos_specs.values |->
        IF gs.pos_specs.values[p].ordered
        THEN [tag |-> "Ordered", regional |-> Regional_new]
        ELSE [tag |-> "Unordered", regional |-> Regional_new]]

\* a find_or_create_shard_mut that turns the shard Unordered when it adds a region
Shard_find_or_create_shard_mut_retagging(shard, pos, region) ==
    IF region \in DOMAIN shard.regional.regions
    THEN shard
    ELSE [tag      |-> "Unordered",
          regional |-> [regions |-> Insert(shard.regional.regions, region,
                                           UnorderedShard_new(pos, region))]]

\* a find_or_create_shard_mut that stores a new shard for the region each time
Shard_find_or_create_shard_mut_fresh(shard, pos, region) ==
    [shard EXCEPT !.regional.regions =
        Insert(@, region,
               IF shard.tag = "Ordered"
               THEN OrderedShard_new(pos, region)
               ELSE UnorderedShard_new(pos, region))]

\* Shard::find_or_create_shard_mut: entry(region).or_insert_with(new)
Shard_find_or_create_shard_mut(shard, pos, region) ==
    IF region \in DOMAIN shard.regional.regions
    THEN shard
    ELSE [shard EXCEPT !.regional.regions =
            Insert(@, region,
                   IF shard.tag = "Ordered"
                   THEN OrderedShard_new(pos, region)
                   ELSE UnorderedShard_new(pos, region))]

\* a find_region_mut that makes up a shard for a position it does not hold
find_region_mut_or_default(sh, pos) ==
    IF pos \in DOMAIN sh
    THEN Ok(sh[pos])
    ELSE Ok([tag |-> "Unordered", regional |-> Regional_new])

\* Transaction::find_region_mut: shards.get_mut(&pos).ok_or(NoSuchPos(pos))
find_region_mut(sh, pos) ==
    IF pos \in DOMAIN sh THEN Ok(sh[pos]) ELSE Err(NoSuchPos(pos))

\* Transaction::find_or_create_shard_mut: the Shard of pos with the region present
Transaction_find_or_create_shard_mut(sh, pos, region) ==
    LET r == find_region_mut(sh, pos)
    IN  IF r.tag = "Ok"
        THEN Ok(Shard_find_or_create_shard_mut(r.val, pos, region))
        ELSE r

\* a create_ordered_pieces that puts the kind into the slot of the suffix
create_ordered_pieces_storing(c, ordered) ==
    [shard   |-> [ordered EXCEPT !.counts = Insert(@, c.pos.suffix, c.kind)],
     outcome |-> "Ok"]

\* create_ordered_pieces: Ok(()) and nothing else
create_ordered_pieces(c, ordered) == [shard |-> ordered, outcome |-> "Ok"]

\* a create_unordered_pieces that replaces the stored count
create_unordered_pieces_replacing(c, shard, checks) ==
    [shard   |-> [shard EXCEPT !.counts = Insert(@, Key(c.pos.suffix, c.kind), c.count)],
     outcome |-> "Ok"]

\* create_unordered_pieces: counts.entry(key): Occupied adds, Vacant inserts.
\* The += on u32 panics on overflow when the build checks it and wraps otherwise.
create_unordered_pieces(c, shard, checks) ==
    LET key == Key(c.pos.suffix, c.kind)
    IN  IF key \in DOMAIN shard.counts
        THEN LET sum == WideAdd(shard.counts[key], c.count)
             IN  IF Overflows(sum) /\ checks
                 THEN [shard |-> shard, outcome |-> "Panic"]
                 ELSE [shard   |-> [shard EXCEPT !.counts[key] = Wrap(sum)],
                       outcome |-> "Ok"]
        ELSE [shard   |-> [shard EXCEPT !.counts = Insert(@, key, c.count)],
              outcome |-> "Ok"]

\* create_pieces: the shards after the call and its outcome
\* (Ok, Err(NoSuchPos) or a panic)
create_pieces(sh, c, checks) ==
    LET found == Transaction_find_or_create_shard_mut(sh, c.pos.pos, c.pos.region)
    IN  IF found.tag = "Err"
        THEN [shards |-> sh, result |-> found, panic |-> FALSE]
        ELSE LET shard == found.val
                 sub   == shard.regional.regions[c.pos.region]
                 done  == IF shard.tag = "Ordered"
                          THEN create_ordered_pieces(c, sub)
                          ELSE create_unordered_pieces(c, sub, checks)
                 after == [shard EXCEPT !.regional.regions[c.pos.region] = done.shard]
             IN  [shards |-> Insert(sh, c.pos.pos, after),
                  result |-> Ok(Unit),
                  panic  |-> done.outcome = "Panic"]

\* a commit that empties every shard
Transaction_commit_clearing(sh) == [p \in DOMAIN sh |-> [sh[p] EXCEPT !.regional = Regional_new]]

\* Transaction::commit: an empty body
Transaction_commit(sh) == sh

\* a shared borrow the compiler does not check
State_borrow_unchecked(borrowed) == TRUE

\* `&mut self` (start_tx): granted when no Transaction holds the State
State_borrow_mut(borrowed) == ~borrowed

\* `&self` (export_rows): granted when no Transaction holds the State mutably
State_borrow(borrowed) == ~borrowed

\* Transaction::apply: the only command is CreatePieces
Transaction_apply(sh, c, checks) == create_pieces(sh, c, checks)

(***************************************************************************)
(* Orders.  ExportRow derives Ord: its fields compare in declaration order *)
(* (pos, kind, count).  QPos and QKind compare field by field as well.     *)
(***************************************************************************)
U32Lt(a, b) == U32Gt(b, a)
QPos_lt(a, b) ==
    \/ a.pos < b.pos
    \/ a.pos = b.pos /\ a.region < b.region
    \/ a.pos = b.pos /\ a.region = b.region /\ a.suffix < b.suffix
QKind_lt(a, b) ==
    \/ a.kind < b.kind
    \/ a.kind = b.kind /\ a.suffix < b.suffix
\* an ExportRow whose count is declared first, so that it is compared first
ExportRow_lt_count_first(a, b) ==
    \/ U32Lt(a.count, b.count)
    \/ a.count = b.count /\ QPos_lt(a.pos, b.pos)
    \/ a.count = b.count /\ a.pos = b.pos /\ QKind_lt(a.kind, b.kind)

ExportRow_lt(a, b) ==
    \/ QPos_lt(a.pos, b.pos)
    \/ a.pos = b.pos /\ QKind_lt(a.kind, b.kind)
    \/ a.pos = b.pos /\ a.kind = b.kind /\ U32Lt(a.count, b.count)

(***************************************************************************)
(* export_rows.  A HashMap is walked in an order the program does not      *)
(* choose, so each export_rows is the set of the sequences the walk can    *)
(* push; a BTreeMap is walked in ascending key order.                      *)
(***************************************************************************)
\* the orders in which the elements of S can be visited
Perms(S) ==
    {f \in [1..Cardinality(S) -> S] :
        \A i, j \in 1..Cardinality(S) : i # j => f[i] # f[j]}

\* what pushing choices[order[1]], choices[order[2]], ... in turn can give
RECURSIVE Concats(_, _)
Concats(order, choices) ==
    IF order = <<>>
    THEN {<<>>}
    ELSE {h \o t : h \in choices[Head(order)], t \in Concats(Tail(order), choices)}

\* an export that leaves out the coordinates whose count is 0
UnorderedShard_export_rows_nonzero(shard) ==
    {[i \in 1..Len(order) |->
        ExportRow(QPos(shard.pos, shard.region, order[i].pos_suffix),
                  order[i].kind,
                  shard.counts[order[i]])] :
     order \in Perms({k \in DOMAIN shard.counts : shard.counts[k] # U32(0, 0)})}

UnorderedShard_export_rows(shard) ==
    {[i \in 1..Len(order) |->
        ExportRow(QPos(shard.pos, shard.region, order[i].pos_suffix),
                  order[i].kind,
                  shard.counts[order[i]])] :
     order \in Perms(DOMAIN shard.counts)}

OrderedShard_export_rows(shard) ==
    {[i \in 1..Len(order) |->
        ExportRow(QPos(shard.pos, shard.region, order[i]),
                  shard.counts[order[i]],
                  U32(0, 1))] :
     order \in {o \in Perms(DOMAIN shard.counts) :
                   \A i, j \in 1..Len(o) : i < j => o[i] < o[j]}}

Regional_export_rows(regional, tag) ==
    LET each == [r \in DOMAIN regional.regions |->
                    IF tag = "Ordered"
                    THEN OrderedShard_export_rows(regional.regions[r])
                    ELSE UnorderedShard_export_rows(regional.regions[r])]
    IN  UNION {Concats(order, each) : order \in Perms(DOMAIN regional.regions)}

Shard_export_rows(shard) == Regional_export_rows(shard.regional, shard.tag)

\* State::export_rows: the sequences it can return
State_export_rows(sh) ==
    LET each == [p \in DOMAIN sh |-> Shard_export_rows(sh[p])]
    IN  UNION {Concats(order, each) : order \in Perms(DOMAIN sh)}

\* Vec::sort of the exported rows, as the caller (Fixture::assert_rows) does
RECURSIVE sort_insert(_, _)
sort_insert(sorted, r) ==
    IF sorted = <<>>
    THEN <<r>>
    ELSE IF ExportRow_lt(r, Head(sorted))
         THEN <<r>> \o sorted
         ELSE <<Head(sorted)>> \o sort_insert(Tail(sorted), r)

RECURSIVE sort(_)
sort(rs) == IF rs = <<>> THEN <<>> ELSE sort_insert(sort(Tail(rs)), Head(rs))

(***************************************************************************)
(* The GameSpecs the State is built from, and the commands drawn.          *)
(***************************************************************************)
GameSpec(l, kinds, poss) ==
    [label |-> l, min_players |-> 3, max_players |-> 5,
     kind_specs |-> LookupTable_try_from(kinds).result.val,
     pos_specs  |-> LookupTable_try_from(poss).result.val]

Kinds == <<KindSpec("card", 1, SuffixSpec_Empty), KindSpec("suit", 2, SuffixSpec_Empty)>>
\* "whist" declares position 1 unordered and position 2 ordered, "hands" both
\* unordered, and "solo" leaves position 1 and kind 2 undeclared
\* the same GameSpec with separate and hidden negated in every position
negate_flags(gs) ==
    [gs EXCEPT !.pos_specs.values =
        [p \in DOMAIN @ |-> [@[p] EXCEPT !.separate = ~@, !.hidden = ~@]]]

GameSpecs ==
    { GameSpec("whist", Kinds, <<PosSpec("deck", 1, FALSE, FALSE, TRUE),
                                 PosSpec("trick", 2, TRUE, TRUE, FALSE)>>),
      GameSpec("hands", Kinds, <<PosSpec("deck", 1, FALSE, FALSE, TRUE),
                                 PosSpec("hand", 2, TRUE, FALSE, TRUE)>>),
      GameSpec("solo", SubSeq(Kinds, 1, 1), <<PosSpec("deck", 2, FALSE, FALSE, FALSE)>>) }

MaxCmds == 2
PosIds == {1, 2}
Regions == {0, 1}
\* the (pos suffix, QKind) pairs the commands address
Keys == {Key(0, QKind(1, 1)), Key(1, QKind(1, 1)), Key(0, QKind(2, 0))}
Counts == {U32(0, 0), U32(0, 1), U32(0, 2), U32_MAX}
Cmds ==
    {CreatePieces(QPos(p, r, k.pos_suffix), k.kind, c) :
        p \in PosIds, r \in Regions, k \in Keys, c \in Counts}

\* history: one more occurrence of c in the bag b
BagAdd(b, c) == IF c \in DOMAIN b THEN [b EXCEPT ![c] = @ + 1] ELSE Insert(b, c, 1)

(***************************************************************************)
(* Spec: the state store.                                                  *)
(***************************************************************************)
Idle == [tag |-> "Idle"]
StoreFrame == UNCHANGED <<lookupVars, coordVars, suffixVars, compileVars>>
LookupIdle == /\ table = Idle /\ item = Idle /\ push_result = Idle
              /\ try_input = Idle /\ try_result = Idle
CoordsIdle == value = Idle /\ kind_result = Idle /\ pos_result = Idle
SuffixIdle == /\ range = Idle /\ suffixes = Idle /\ suffix_result = Idle
              /\ suffix_query = Idle
CompileIdle == game_def = Idle /\ compile_result = Idle
StoreIdle  == /\ spec = Idle /\ shards = Idle /\ tx = Idle /\ cmd = Idle
              /\ result = Idle /\ rows = Idle /\ actual_rows = Idle
              /\ applied = Idle /\ ncmds = Idle /\ panicked = Idle
              /\ twin = Idle

Init ==
    /\ spec \in GameSpecs
    /\ shards = State_new(spec)
    /\ tx = FALSE
    /\ cmd = None
    /\ result = None
    /\ rows = None
    /\ actual_rows = None
    /\ applied = EmptyMap
    /\ ncmds = 0
    /\ panicked = FALSE
    /\ twin = State_new(negate_flags(spec))
    /\ LookupIdle /\ CoordsIdle /\ SuffixIdle /\ CompileIdle

\* State::start_tx: the Transaction borrows the State mutably
StartTx ==
    /\ ~panicked /\ State_borrow_mut(tx)
    /\ tx' = TRUE
    /\ cmd' = None /\ result' = None /\ rows' = None /\ actual_rows' = None
    /\ UNCHANGED <<spec, shards, applied, ncmds, panicked, twin>>
    /\ StoreFrame

\* Transaction::apply(cmd).  checks: whether the build checks integer overflow
\* (a debug build panics on it, a release build wraps).
Apply(c, checks) ==
    /\ ~panicked /\ tx /\ ncmds < MaxCmds
    /\ LET r == Transaction_apply(shards, c, checks)
       IN  /\ shards' = r.shards
           /\ twin' = Transaction_apply(twin, c, checks).shards
           /\ panicked' = r.panic
           /\ result' = IF r.panic THEN None ELSE Some(r.result)
           /\ applied' = IF ~r.panic /\ r.result.tag = "Ok"
                         THEN BagAdd(applied, c)
                         ELSE applied
    /\ cmd' = Some(c)
    /\ ncmds' = ncmds + 1
    /\ rows' = None /\ actual_rows' = None
    /\ UNCHANGED <<spec, tx>>
    /\ StoreFrame

\* Transaction::commit: an empty body
Commit ==
    /\ ~panicked /\ tx
    /\ shards' = Transaction_commit(shards)
    /\ twin' = Transaction_commit(twin)
    /\ cmd' = None /\ result' = None
    /\ UNCHANGED <<spec, tx, rows, actual_rows, applied, ncmds, panicked>>
    /\ StoreFrame

\* the Transaction goes out of scope and the borrow ends
DropTx ==
    /\ ~panicked /\ tx
    /\ tx' = FALSE
    /\ cmd' = None /\ result' = None
    /\ UNCHANGED <<spec, shards, rows, actual_rows, applied, ncmds, panicked, twin>>
    /\ StoreFrame

\* State::export_rows
ExportRows ==
    /\ ~panicked /\ State_borrow(tx)
    /\ \E r \in State_export_rows(shards) : rows' = Some(r)
    /\ actual_rows' = None
    /\ cmd' = None /\ result' = None
    /\ UNCHANGED <<spec, shards, tx, applied, ncmds, panicked, twin>>
    /\ StoreFrame

\* Fixture::assert_rows: export_rows, then sort
AssertRows ==
    /\ ~panicked /\ State_borrow(tx)
    /\ \E r \in State_export_rows(shards) :
          /\ rows' = Some(r)
          /\ actual_rows' = Some(sort(r))
    /\ cmd' = None /\ result' = None
    /\ UNCHANGED <<spec, shards, tx, applied, ncmds, panicked, twin>>
    /\ StoreFrame

Next ==
    \/ StartTx
    \/ \E c \in Cmds, checks \in BOOLEAN : Apply(c, checks)
    \/ Commit
    \/ DropTx
    \/ ExportRows
    \/ AssertRows

Spec == Init /\ [][Next]_vars

(***************************************************************************)
(* Properties of the state store (checked under Spec).                     *)
(***************************************************************************)
Ordered(p) == spec.pos_specs.values[p].ordered
Declared(p) == p \in DOMAIN spec.pos_specs.values

\* the exact sum of the counts of the commands of the bag b that lie in S
RECURSIVE WideTimes(_, _)
WideTimes(a, m) == IF m = 0 THEN U32(0, 0) ELSE WideAdd(a, WideTimes(a, m - 1))
RECURSIVE WideSum(_, _)
WideSum(b, S) ==
    IF S = {}
    THEN U32(0, 0)
    ELSE LET c == CHOOSE x \in S : TRUE
         IN  WideAdd(WideTimes(c.count, b[c]), WideSum(b, S \ {c}))
\* the commands answered Ok that address the coordinate (qpos, qkind)
AppliedTo(qpos, qkind) == {c \in DOMAIN applied : c.pos = qpos /\ c.kind = qkind}
\* the coordinates of unordered positions that some command answered Ok wrote to
WrittenCoords ==
    {<<c.pos, c.kind>> : c \in {x \in DOMAIN applied : ~Ordered(x.pos.pos)}}
\* the rows the shards hold, as a set
StoredRows ==
    UNION {UNION {{ExportRow(QPos(p, r, k.pos_suffix), k.kind,
                             shards[p].regional.regions[r].counts[k]) :
                     k \in DOMAIN shards[p].regional.regions[r].counts} :
                  r \in DOMAIN shards[p].regional.regions} :
           p \in DOMAIN shards}
SeqToSet(q) == {q[i] : i \in 1..Len(q)}
\* ascending (QPos, QKind) order
CoordLt(a, b) == QPos_lt(a.pos, b.pos) \/ (a.pos = b.pos /\ QKind_lt(a.kind, b.kind))
Ascending(q) == \A i, j \in 1..Len(q) : i < j => CoordLt(q[i], q[j])

\* C1 (as claimed): the count exported for a coordinate of an unordered
\* position is the sum of the counts of all the commands applied to that
\* coordinate: a later command adds to the stored count.
C1_CountIsSumOfApplied ==
    rows.tag = "Some" =>
        \A w \in WrittenCoords :
            \E i \in 1..Len(rows.val) :
                rows.val[i] = ExportRow(w[1], w[2], WideSum(applied, AppliedTo(w[1], w[2])))

\* C2: an apply whose position the GameSpec does not declare returns
\* NoSuchPos(pos) and leaves the State as it was: no shard added, no region
\* created, no count changed.
C2_NoSuchPosLeavesState ==
    [][(ncmds' = ncmds + 1 /\ ~Declared(cmd'.val.pos.pos))
         => /\ result' = Some(Err(NoSuchPos(cmd'.val.pos.pos)))
            /\ shards' = shards
            /\ ~panicked']_vars
C2_Witness ==
    /\ result.tag = "Some" /\ result.val.tag = "Err"
    /\ \E p \in DOMAIN shards : DOMAIN shards[p].regional.regions # {}

\* C3 (as claimed): whatever export_rows returns is in ascending
\* (QPos, QKind) order.
C3_ExportRowsAscending == rows.tag = "Some" => Ascending(rows.val)

\* C3 (amended): export_rows returns the stored rows in the order of the hash
\* map walk; once the caller has sorted them, as assert_rows does, they are
\* in ascending (QPos, QKind) order and are exactly the rows stored, whatever
\* the order in which the commands were applied.
C3_SortedByCallerAscending ==
    actual_rows.tag = "Some" =>
        /\ Ascending(actual_rows.val)
        /\ SeqToSet(actual_rows.val) = StoredRows
        /\ Len(actual_rows.val) = Cardinality(StoredRows)
C3_Witness ==
    /\ actual_rows.tag = "Some" /\ rows.tag = "Some"
    /\ Len(rows.val) = 2
    /\ ~Ascending(rows.val)
    /\ rows.val[1].pos.pos # rows.val[2].pos.pos

\* C4: State::new(spec) holds one shard per position of spec.pos_specs,
\* Ordered when the position's ordered flag is set and Unordered otherwise,
\* no shard holds a region, and export_rows returns the empty sequence.
C4_NewState ==
    ncmds = 0 =>
        /\ DOMAIN shards = DOMAIN spec.pos_specs.values
        /\ \A p \in DOMAIN shards :
              /\ shards[p].tag = IF Ordered(p) THEN "Ordered" ELSE "Unordered"
              /\ DOMAIN shards[p].regional.regions = {}
        /\ rows.tag = "Some" => rows.val = <<>>
C4_Witness ==
    /\ ncmds = 0
    /\ rows = Some(<<>>)
    /\ \E p, q \in DOMAIN shards : Ordered(p) /\ ~Ordered(q)

\* C19: in every state reached by start_tx, apply (answered Ok or Err) and
\* commit, the positions that have a shard are the positions of the spec,
\* and each shard has the tag its ordered flag gave it at construction.
C19_ShardsFixed ==
    /\ DOMAIN shards = DOMAIN spec.pos_specs.values
    /\ \A p \in DOMAIN shards :
          shards[p].tag = IF Ordered(p) THEN "Ordered" ELSE "Unordered"
C19_Witness ==
    /\ ncmds = 2 /\ cmd = None /\ tx
    /\ \E c \in DOMAIN applied : Ordered(c.pos.pos)
    /\ \E p \in DOMAIN shards :
          Ordered(p) /\ DOMAIN shards[p].regional.regions # {}

\* the regions of the shard of p (none when p has no shard)
RegionsOf(sh, p) == IF p \in DOMAIN sh THEN DOMAIN sh[p].regional.regions ELSE {}
\* region r of position p is in sh and sh2 with the same contents, but for
\* the count stored under key k
SameBut(sh, sh2, p, r, k) ==
    LET before == sh[p].regional.regions[r]
        after  == sh2[p].regional.regions[r]
    IN  /\ after.pos = before.pos /\ after.region = before.region
        /\ DOMAIN before.counts \subseteq DOMAIN after.counts
        /\ DOMAIN after.counts \subseteq DOMAIN before.counts \cup {k}
        /\ \A x \in DOMAIN before.counts \ {k} : after.counts[x] = before.counts[x]

\* C20: region r is in the shard of p exactly when a CreatePieces addressing
\* (p, r) was applied with p declared; an apply to (p, r) keeps a region
\* that is there with its contents, touches no other region and no other
\* position; no step removes a region.
C20_RegionsLazyAndGrowing ==
    /\ [](\A p \in PosIds, r \in Regions :
             r \in RegionsOf(shards, p)
                <=> \E c \in DOMAIN applied : c.pos.pos = p /\ c.pos.region = r)
    /\ [][\A p \in PosIds, r \in Regions :
             /\ r \in RegionsOf(shards, p) => r \in RegionsOf(shards', p)
             /\ (r \in RegionsOf(shards, p) /\ ncmds' = ncmds)
                   => shards'[p].regional.regions[r] = shards[p].regional.regions[r]
             /\ (ncmds' = ncmds + 1 /\ <<p, r>> # <<cmd'.val.pos.pos, cmd'.val.pos.region>>)
                   => /\ r \in RegionsOf(shards', p) <=> r \in RegionsOf(shards, p)
                      /\ r \in RegionsOf(shards, p)
                            => shards'[p].regional.regions[r] = shards[p].regional.regions[r]
             /\ (ncmds' = ncmds + 1 /\ r \in RegionsOf(shards, p)
                    /\ <<p, r>> = <<cmd'.val.pos.pos, cmd'.val.pos.region>>)
                   => SameBut(shards, shards', p, r,
                              Key(cmd'.val.pos.suffix, cmd'.val.kind))]_vars
C20_Witness ==
    /\ ncmds = 2
    /\ \E p \in DOMAIN shards :
          /\ Cardinality(DOMAIN shards[p].regional.regions) = 1
          /\ \E r \in DOMAIN shards[p].regional.regions :
                Cardinality(DOMAIN shards[p].regional.regions[r].counts) = 2

C22_ApplyNeverAborts == ~panicked

\* the coordinates the shards hold a count for
StoredCoords == {<<x.pos, x.kind>> : x \in StoredRows}

\* C23 (as claimed): an apply to a declared position answers Ok whatever the
\* region, the suffixes and the kind are, and the pieces are stored.
C23_OnlyPosValidated ==
    [][(ncmds' = ncmds + 1 /\ Declared(cmd'.val.pos.pos))
          => /\ ~panicked'
             /\ result' = Some(Ok(Unit))
             /\ <<cmd'.val.pos, cmd'.val.kind>> \in StoredCoords']_vars

\* C24: commit leaves the State as it is, and so do start_tx, the drop of
\* the Transaction and export_rows; what an apply answered Ok to is in the
\* State when apply returns and stays there, also when a later apply of the
\* same Transaction fails.
C24_CommitIsNoOp ==
    /\ [](WrittenCoords \subseteq StoredCoords)
    /\ [][/\ ncmds' = ncmds => shards' = shards
          /\ (ncmds' = ncmds + 1 /\ result' # None /\ result'.val.tag = "Err")
                => shards' = shards
          /\ (ncmds' = ncmds + 1 /\ result' = Some(Ok(Unit)) /\ ~Ordered(cmd'.val.pos.pos))
                => <<cmd'.val.pos, cmd'.val.kind>> \in StoredCoords']_vars
C24_Witness ==
    /\ ncmds = 2 /\ tx
    /\ result # None /\ result.val.tag = "Err"
    /\ Cardinality(DOMAIN applied) = 1
    /\ WrittenCoords # {} /\ WrittenCoords \subseteq StoredCoords

\* C25: an apply to an ordered position answers Ok, stores nothing and adds
\* at most the addressed region, empty, to the shard of that position;
\* ordered positions give export_rows no row.
C25_OrderedStoresNothing ==
    /\ [](/\ \A p \in DOMAIN shards :
               Ordered(p) => \A r \in DOMAIN shards[p].regional.regions :
                                shards[p].regional.regions[r].counts = EmptyMap
          /\ rows.tag = "Some" =>
                \A i \in 1..Len(rows.val) : ~Ordered(rows.val[i].pos.pos))
    /\ [][(ncmds' = ncmds + 1 /\ Declared(cmd'.val.pos.pos) /\ Ordered(cmd'.val.pos.pos))
             => /\ result' = Some(Ok(Unit))
                /\ \A p \in DOMAIN shards :
                      /\ p # cmd'.val.pos.pos => shards'[p] = shards[p]
                      /\ RegionsOf(shards', p) \subseteq
                            RegionsOf(shards, p) \cup {cmd'.val.pos.region}
                      /\ \A r \in RegionsOf(shards, p) :
                            shards'[p].regional.regions[r] = shards[p].regional.regions[r]]_vars
C25_Witness ==
    /\ rows = Some(<<>>) /\ ncmds = 2
    /\ \A c \in DOMAIN applied : Ordered(c.pos.pos) /\ c.count = U32_MAX
    /\ \E p \in DOMAIN shards : Cardinality(RegionsOf(shards, p)) = 2

\* C26: export_rows holds one row for each coordinate a command answered Ok
\* wrote to an unordered position and no other row; no two rows share a
\* coordinate; a coordinate written with count 0 only has a row, of count 0.
C26_OneRowPerCoordinate ==
    rows.tag = "Some" =>
        /\ {<<rows.val[i].pos, rows.val[i].kind>> : i \in 1..Len(rows.val)} = WrittenCoords
        /\ Len(rows.val) = Cardinality(WrittenCoords)
        /\ \A w \in WrittenCoords :
              (\A c \in AppliedTo(w[1], w[2]) : c.count = U32(0, 0))
                 => \E i \in 1..Len(rows.val) :
                       rows.val[i] = ExportRow(w[1], w[2], U32(0, 0))
C26_Witness ==
    /\ rows.tag = "Some" /\ Len(rows.val) = 2
    /\ rows.val[1].count = U32(0, 0) /\ rows.val[2].count # U32(0, 0)

\* no coordinate has been given more than 2^32 - 1 pieces
NoOverflow == \A w \in WrittenCoords : ~Overflows(WideSum(applied, AppliedTo(w[1], w[2])))
\* the rows the bag of applied commands stands for
Snapshot ==
    {ExportRow(w[1], w[2], Wrap(WideSum(applied, AppliedTo(w[1], w[2])))) : w \in WrittenCoords}

\* C29: without overflow the sorted export is determined by the bag of the
\* commands applied, whatever their order: it is the ascending sequence of
\* one row per coordinate with the sum of the counts given to it, so that
\* counts a and b in two commands give what a + b gives in one.
C29_OrderIndependent ==
    (actual_rows.tag = "Some" /\ NoOverflow) =>
        /\ SeqToSet(actual_rows.val) = Snapshot
        /\ Len(actual_rows.val) = Cardinality(Snapshot)
        /\ Ascending(actual_rows.val)
C29_Witness ==
    /\ actual_rows.tag = "Some" /\ NoOverflow
    /\ \E c, e \in DOMAIN applied :
          /\ c.pos = e.pos /\ c.kind = e.kind
          /\ c.count = U32(0, 1) /\ e.count = U32(0, 2)
          /\ actual_rows.val = <<ExportRow(c.pos, c.kind, U32(0, 3))>>

\* C30: a State built from the same GameSpec with separate and hidden
\* negated is, after the same commands, equal to this one and exports the
\* same rows; every command to an unordered position has its own row under
\* its own region, whatever the separate flag says.
C30_FlagsIgnored ==
    /\ twin = shards
    /\ rows.tag = "Some" => rows.val \in State_export_rows(twin)
    /\ \A c \in DOMAIN applied :
          ~Ordered(c.pos.pos) => <<c.pos, c.kind>> \in StoredCoords
C30_Witness ==
    /\ rows.tag = "Some" /\ Len(rows.val) = 2
    /\ rows.val[1].pos.pos = rows.val[2].pos.pos
    /\ rows.val[1].pos.region # rows.val[2].pos.region
    /\ rows.val[1].kind = rows.val[2].kind
    /\ ~spec.pos_specs.values[rows.val[1].pos.pos].separate

(***************************************************************************)
(* SpecLookup: a LookupTable under push, and tables built by try_from.     *)
(***************************************************************************)
MaxLen == 3
Ids == {1, 2, 3}
Labels == {"x", "y", "z"}
\* the values pushed: an id, a label and a payload that tells two values
\* of one id or one label apart
Values == [id : Ids, label : Labels, data : {0, 1}]
Vecs == UNION {[1..n -> Values] : n \in 0..MaxLen}

LookupFrame == UNCHANGED <<storeVars, coordVars, suffixVars, compileVars>>

InitLookup ==
    /\ table = LookupTable_new
    /\ item = None
    /\ push_result = None
    /\ try_input = None
    /\ try_result = None
    /\ StoreIdle /\ CoordsIdle /\ SuffixIdle /\ CompileIdle

\* table.push(v)
Push(v) ==
    /\ LET r == LookupTable_push(table, v)
       IN  /\ table' = r.table
           /\ push_result' = Some(r.result)
    /\ item' = Some(v)
    /\ try_input' = None /\ try_result' = None
    /\ LookupFrame

\* LookupTable::try_from of some Vec, before anything else was done: the table built
\* becomes the table at hand, a failed build leaves none
TryFrom ==
    /\ table = LookupTable_new /\ item = None /\ try_input = None
    /\ \E vs \in Vecs :
          LET r == LookupTable_try_from(vs)
          IN  /\ try_result' = Some(r)
              /\ table' = IF r.result.tag = "Ok" THEN r.result.val ELSE table
              /\ try_input' = Some(vs)
    /\ item' = None /\ push_result' = None
    /\ LookupFrame

NextLookup ==
    \/ \E v \in Values : Push(v)
    \/ TryFrom

SpecLookup == InitLookup /\ [][NextLookup]_vars

StoredValues(t) == {t.values[k] : k \in DOMAIN t.values}

\* C5: push looks at the id before the label: a value whose id is stored
\* fails with IdCollision(id), also when its label is stored too; one whose
\* id is new and whose label is stored fails with LabelCollision(label);
\* any other push succeeds.
C5_IdBeforeLabel ==
    [][item'.tag = "Some" =>
        LET v == item'.val
            idTaken == \E w \in StoredValues(table) : w.id = v.id
            labelTaken == \E w \in StoredValues(table) : w.label = v.label
        IN  push_result' = Some(IF idTaken THEN Err(IdCollision(v.id))
                                ELSE IF labelTaken THEN Err(LabelCollision(v.label))
                                ELSE Ok(Unit))]_vars
C5_Witness ==
    /\ item.tag = "Some"
    /\ push_result = Some(Err(IdCollision(item.val.id)))
    /\ \E w \in StoredValues(table) : w.id # item.val.id /\ w.label = item.val.label

\* C6: a push that fails leaves the table as it was: neither index gains,
\* loses or overwrites an entry, and find, find_by_label and contains_id
\* answer as before.
C6_FailedPushLeavesTable ==
    [][(item'.tag = "Some" /\ push_result'.val.tag = "Err") =>
        /\ table'.values = table.values
        /\ table'.label_index = table.label_index
        /\ \A i \in Ids :
              /\ LookupTable_find(table', i) = LookupTable_find(table, i)
              /\ LookupTable_contains_id(table', i) = LookupTable_contains_id(table, i)
        /\ \A l \in Labels :
              LookupTable_find_by_label(table', l) = LookupTable_find_by_label(table, l)]_vars
C6_Witness ==
    /\ item.tag = "Some"
    /\ push_result.val.tag = "Err"
    /\ item.val.id \in DOMAIN table.values
    /\ table.values[item.val.id] # item.val

\* C7: after any pushes, successful or failed, no two stored values share an
\* id or a label, find(v.id) and find_by_label(v.label) return v for every
\* stored v, and every id of the label index is in the value map, so that
\* find_by_label does not panic.
C7_TableConsistent ==
    /\ \A k \in DOMAIN table.values : table.values[k].id = k
    /\ \A j, k \in DOMAIN table.values :
          j # k => table.values[j].label # table.values[k].label
    /\ \A v \in StoredValues(table) :
          /\ LookupTable_find(table, v.id) = Some(v)
          /\ LookupTable_find_by_label(table, v.label) = Some(v)
    /\ \A l \in DOMAIN table.label_index : table.label_index[l] \in DOMAIN table.values
    /\ \A l \in Labels : LookupTable_find_by_label(table, l).tag # "Panic"
C7_Witness ==
    /\ Cardinality(DOMAIN table.values) >= 2
    /\ push_result.tag = "Some" /\ push_result.val.tag = "Err"

\* the first index of vs whose value shares an id or a label with an earlier
\* one (0 when there is none)
CollidesAt(vs, i) ==
    \E j \in 1..(i - 1) : vs[j].id = vs[i].id \/ vs[j].label = vs[i].label
FirstCollision(vs) ==
    IF \E i \in 1..Len(vs) : CollidesAt(vs, i)
    THEN CHOOSE i \in 1..Len(vs) :
            CollidesAt(vs, i) /\ \A j \in 1..(i - 1) : ~CollidesAt(vs, j)
    ELSE 0

\* C8: try_from pushes the values in sequence order and returns the collision
\* of the first value that collides with an earlier one (the id collision
\* when both collide), examining no later value; without a collision the
\* table holds exactly the values of the sequence.
C8_FirstCollisionWins ==
    try_input.tag = "Some" =>
        LET vs == try_input.val
            f  == FirstCollision(vs)
            r  == try_result.val
        IN  IF f = 0
            THEN /\ r.result.tag = "Ok"
                 /\ StoredValues(r.result.val) = SeqToSet(vs)
                 /\ Cardinality(DOMAIN r.result.val.values) = Len(vs)
                 /\ r.examined = Len(vs)
            ELSE /\ r.result =
                      Err(IF \E j \in 1..(f - 1) : vs[j].id = vs[f].id
                          THEN IdCollision(vs[f].id)
                          ELSE LabelCollision(vs[f].label))
                 /\ r.examined = f
C8_Witness ==
    /\ try_input.tag = "Some"
    /\ Len(try_input.val) = 3
    /\ try_result.val.result.tag = "Err"
    /\ try_result.val.examined = 2
    /\ CollidesAt(try_input.val, 3)

(***************************************************************************)
(* SpecCoords: the conversions of a u32 to Kind and to Pos.                *)
(***************************************************************************)
U32Inputs ==
    {U32(h, l) : h \in {0, 1, 2, TwoPow16 - 1},
                 l \in {0, 1, 2, 56, 9998, 9999, 10000, 10001, TwoPow16 - 1}}

CoordsFrame == UNCHANGED <<storeVars, lookupVars, suffixVars, compileVars>>

InitCoords ==
    /\ value \in U32Inputs
    /\ kind_result = None
    /\ pos_result = None
    /\ StoreIdle /\ LookupIdle /\ SuffixIdle /\ CompileIdle

\* Kind::try_from(value), then as_u32 and as_usize of the Kind it gave
ConvertKind ==
    /\ kind_result = None
    /\ LET r == Kind_try_from(value)
       IN  kind_result' =
              Some([result   |-> r,
                    as_u32   |-> IF r.tag = "Ok" THEN Some(Kind_as_u32(r.val)) ELSE None,
                    as_usize |-> IF r.tag = "Ok" THEN Some(Kind_as_usize(r.val)) ELSE None])
    /\ UNCHANGED <<value, pos_result>>
    /\ CoordsFrame

\* Pos::try_from(value), then as_u32 and as_usize of the Pos it gave
ConvertPos ==
    /\ pos_result = None
    /\ LET r == Pos_try_from(value)
       IN  pos_result' =
              Some([result   |-> r,
                    as_u32   |-> IF r.tag = "Ok" THEN Some(Pos_as_u32(r.val)) ELSE None,
                    as_usize |-> IF r.tag = "Ok" THEN Some(Pos_as_usize(r.val)) ELSE None])
    /\ UNCHANGED <<value, kind_result>>
    /\ CoordsFrame

NextCoords == ConvertKind \/ ConvertPos

SpecCoords == InitCoords /\ [][NextCoords]_vars

\* 1 <= u <= 9999, for a u32 kept as two halves
InBounds(u) == u.hi = 0 /\ 1 <= u.lo /\ u.lo <= 9999
\* the number a u32 within the bounds stands for
NatOf(u) == u.hi * TwoPow16 + u.lo

\* C9: a u32 converts to Kind, and to Pos, exactly when it lies in 1..9999,
\* and then as_u32 and as_usize give it back; 0 and every larger value, also
\* one whose low 16 bits lie in 1..9999, fail with InvalidKind(u), resp.
\* InvalidPos(u), carrying the value.
C9_ConversionBounds ==
    /\ kind_result.tag = "Some" =>
          IF InBounds(value)
          THEN /\ kind_result.val.result.tag = "Ok"
               /\ kind_result.val.as_u32 = Some(value)
               /\ kind_result.val.as_usize = Some(NatOf(value))
          ELSE kind_result.val.result = Err(InvalidKind(value))
    /\ pos_result.tag = "Some" =>
          IF InBounds(value)
          THEN /\ pos_result.val.result.tag = "Ok"
               /\ pos_result.val.as_u32 = Some(value)
               /\ pos_result.val.as_usize = Some(NatOf(value))
          ELSE pos_result.val.result = Err(InvalidPos(value))
C9_Witness ==
    /\ value = U32(1, 9999)
    /\ kind_result.tag = "Some" /\ kind_result.val.result = Err(InvalidKind(U32(1, 9999)))
    /\ pos_result.tag = "Some" /\ pos_result.val.result = Err(InvalidPos(U32(1, 9999)))

(***************************************************************************)
(* SpecSuffix: convert_suffixes of a range and a list of rows.             *)
(***************************************************************************)
MaxRows == 2
RangeBounds == {-1, 0, 1, 5}
RangeDefs == {None} \cup {Some(SuffixRangeDef(a, b)) : a, b \in RangeBounds}
SuffixDefs == {SuffixDef(l, i) : l \in {"hearts", "clubs"},
                                 i \in {U32(0, 1), U32(0, 2), U32_MAX}}
SuffixDefVecs == UNION {[1..n -> SuffixDefs] : n \in 0..MaxRows}

I32_MAX == 2147483647
I32_MIN == -2147483647 - 1
QuerySuffixes == {I32_MIN, -2, -1, 0, 1, 2, 3, 5, 6, I32_MAX}
QueryLabels == {"hearts", "clubs", "spades"}

SuffixFrame == UNCHANGED <<storeVars, lookupVars, coordVars, compileVars>>

InitSuffix ==
    /\ range \in RangeDefs
    /\ suffixes \in SuffixDefVecs
    /\ suffix_result = None
    /\ suffix_query = None
    /\ StoreIdle /\ LookupIdle /\ CoordsIdle /\ CompileIdle

\* convert_suffixes(range, suffixes)
ConvertSuffixes ==
    /\ suffix_result = None
    /\ suffix_result' = Some(convert_suffixes(range, suffixes))
    /\ UNCHANGED <<range, suffixes, suffix_query>>
    /\ SuffixFrame

\* spec.is_valid(sx) on the SuffixSpec convert_suffixes gave
IsValid(sx) ==
    /\ suffix_result.tag = "Some" /\ suffix_result.val.tag = "Ok"
    /\ suffix_query' = [op |-> "is_valid", arg |-> sx,
                        answer |-> SuffixSpec_is_valid(suffix_result.val.val, sx)]
    /\ UNCHANGED <<range, suffixes, suffix_result>>
    /\ SuffixFrame

\* spec.find_by_label(l) on the SuffixSpec convert_suffixes gave
FindByLabel(l) ==
    /\ suffix_result.tag = "Some" /\ suffix_result.val.tag = "Ok"
    /\ suffix_query' = [op |-> "find_by_label", arg |-> l,
                        answer |-> SuffixSpec_find_by_label(suffix_result.val.val, l)]
    /\ UNCHANGED <<range, suffixes, suffix_result>>
    /\ SuffixFrame

NextSuffix ==
    \/ ConvertSuffixes
    \/ \E sx \in QuerySuffixes : IsValid(sx)
    \/ \E l \in QueryLabels : FindByLabel(l)

SpecSuffix == InitSuffix /\ [][NextSuffix]_vars

RowsCollide(defs) ==
    \E i, j \in 1..Len(defs) : i # j /\ (defs[i].id = defs[j].id \/ defs[i].label = defs[j].label)

\* C10: with a range present and at least one row convert_suffixes fails
\* with SuffixesAndRangeDefined, whether the range is valid or not and
\* whether the rows collide or not.
C10_RangeAndRows ==
    (suffix_result.tag = "Some" /\ range.tag = "Some" /\ suffixes # <<>>)
        => suffix_result.val = Err(SuffixesAndRangeDefined)
C10_Witness ==
    /\ suffix_result = Some(Err(SuffixesAndRangeDefined))
    /\ range.tag = "Some" /\ range.val.min >= range.val.max
    /\ RowsCollide(suffixes)

\* C11: a range and no rows give SuffixSpec::Range{min, max} exactly when
\* min < max; with min = max or min > max the call fails with
\* InvalidSuffixRange(min, max), both bounds as given.
C11_RangeOnly ==
    (suffix_result.tag = "Some" /\ range.tag = "Some" /\ suffixes = <<>>)
        => suffix_result.val =
              IF range.val.min < range.val.max
              THEN Ok(SuffixSpec_Range(SuffixRange(range.val.min, range.val.max)))
              ELSE Err(InvalidSuffixRange(range.val.min, range.val.max))
C11_Witness ==
    /\ range = Some(SuffixRangeDef(5, 5)) /\ suffixes = <<>>
    /\ suffix_result = Some(Err(InvalidSuffixRange(5, 5)))

\* the SuffixSpec at hand is the variant named
IsVariant(tag) ==
    /\ suffix_result.tag = "Some" /\ suffix_result.val.tag = "Ok"
    /\ suffix_result.val.val.tag = tag
Asked(op) == suffix_query # None /\ suffix_query.op = op

\* C12: on a Range{min, max} is_valid(s) answers true exactly when
\* min <= s <= max, both ends included, negative bounds too.
C12_RangeInclusive ==
    (IsVariant("Range") /\ Asked("is_valid"))
        => (suffix_query.answer <=>
               (range.val.min <= suffix_query.arg /\ suffix_query.arg <= range.val.max))
C12_Witness ==
    /\ IsVariant("Range") /\ Asked("is_valid")
    /\ range.val.min = -1 /\ suffix_query.arg = -1 /\ suffix_query.answer = TRUE

\* C13: no range and no rows give SuffixSpec::Empty, and on Empty
\* is_valid(s) answers true exactly when s = 0.
C13_EmptyOnlyZero ==
    /\ (suffix_result.tag = "Some" /\ range = None /\ suffixes = <<>>)
          => suffix_result.val = Ok(SuffixSpec_Empty)
    /\ (IsVariant("Empty") /\ Asked("is_valid"))
          => (suffix_query.answer <=> suffix_query.arg = 0)
C13_Witness ==
    /\ range = None /\ suffixes = <<>> /\ IsVariant("Empty")
    /\ Asked("is_valid") /\ suffix_query.arg = -1 /\ suffix_query.answer = FALSE

\* the suffixes the rows were declared with, and the suffix declared for a label
DeclaredSuffixes == {as_i32(suffixes[i].id) : i \in 1..Len(suffixes)}
DeclaredFor(l) == {as_i32(suffixes[i].id) : i \in {j \in 1..Len(suffixes) : suffixes[j].label = l}}

\* C14: on a Table built from rows is_valid(s) answers true exactly when s
\* is the id of a row, find_by_label(l) answers the suffix of the row
\* labelled l and nothing for a label no row has; on Empty and on Range
\* find_by_label answers nothing.
C14_TableQueries ==
    /\ (IsVariant("Table") /\ Asked("is_valid"))
          => (suffix_query.answer <=> suffix_query.arg \in DeclaredSuffixes)
    /\ (IsVariant("Table") /\ Asked("find_by_label"))
          => IF DeclaredFor(suffix_query.arg) = {}
             THEN suffix_query.answer = None
             ELSE /\ suffix_query.answer.tag = "Some"
                  /\ DeclaredFor(suffix_query.arg) = {suffix_query.answer.val}
    /\ ((IsVariant("Empty") \/ IsVariant("Range")) /\ Asked("find_by_label"))
          => suffix_query.answer = None
C14_Witness ==
    /\ IsVariant("Table") /\ Len(suffixes) = 2
    /\ Asked("find_by_label") /\ suffix_query.arg = suffixes[2].label
    /\ suffix_query.answer = Some(as_i32(suffixes[2].id))
    /\ as_i32(suffixes[2].id) > as_i32(suffixes[1].id)

\* C27 (as claimed): the suffix of a row is the number its id is, for every
\* u32 id, ids above 2^31 - 1 included.
C27_SuffixKeepsId ==
    IsVariant("Table") =>
        \A i \in 1..Len(suffixes) :
            \E sx \in DOMAIN suffix_result.val.val.table.values :
                /\ sx >= 0
                /\ suffixes[i].id = U32(sx \div TwoPow16, sx % TwoPow16)

(***************************************************************************)
(* SpecCompile: GameSpec::try_from of a GameDef.                           *)
(***************************************************************************)
MaxDefs == 3
\* two kinds that convert and collide with nothing, one that shares its label
\* with the first and its id with the second, one whose suffix rows collide,
\* one whose id is out of bounds and whose range is empty
KindDefs ==
    { KindDef("card", U32(0, 1), None, <<>>),
      KindDef("suit", U32(0, 2), None,
              <<SuffixDef("hearts", U32(0, 1)), SuffixDef("clubs", U32(0, 2))>>),
      KindDef("card", U32(0, 2), Some(SuffixRangeDef(1, 52)), <<>>),
      KindDef("suit", U32(0, 1), None,
              <<SuffixDef("hearts", U32(0, 1)), SuffixDef("clubs", U32(0, 2)),
                SuffixDef("hearts", U32(0, 2))>>),
      KindDef("beans", U32(1, 2), Some(SuffixRangeDef(5, 5)), <<>>) }
\* the same for positions; "card" and the ids 1 and 2 are shared with the kinds
PosDefs ==
    { PosDef("deck", U32(0, 1), None, <<>>, FALSE, FALSE, TRUE),
      PosDef("card", U32(0, 2), None, <<>>, TRUE, TRUE, FALSE),
      PosDef("deck", U32(0, 2), Some(SuffixRangeDef(-1, 5)), <<>>, FALSE, FALSE, FALSE),
      PosDef("hand", U32(0, 1), None,
             <<SuffixDef("coke", U32(0, 1)), SuffixDef("coke", U32(0, 2))>>,
             TRUE, FALSE, TRUE),
      PosDef("trick", U32(0, 0), Some(SuffixRangeDef(1, 52)),
             <<SuffixDef("lead", U32(0, 1))>>, TRUE, TRUE, FALSE) }
DefVecs(S, len) == UNION {[1..n -> S] : n \in 0..len}
\* (min_players, max_players): 0 and 255, min above max, both too large, one
\* of the two too large
PlayerCounts ==
    { <<U32(0, 0), U32(0, 255)>>, <<U32(0, 3), U32(0, 2)>>, <<U32(0, 256), U32_MAX>>,
      <<U32(0, 3), U32_MAX>>, <<U32(0, 256), U32(0, 2)>> }
\* the definitions with up to klen kinds and up to plen positions
GameDefs(klen, plen) ==
    {GameDef("whist", pc[1], pc[2], kinds, poss) :
        pc \in PlayerCounts,
        kinds \in DefVecs(KindDefs, klen), poss \in DefVecs(PosDefs, plen)}

CompileFrame == UNCHANGED <<storeVars, lookupVars, coordVars, suffixVars>>

InitCompile ==
    \* up to MaxDefs kinds with one position at most, or one fewer of each
    /\ \/ game_def \in GameDefs(MaxDefs, 1)
       \/ game_def \in GameDefs(MaxDefs - 1, MaxDefs - 1)
    /\ compile_result = None
    /\ StoreIdle /\ LookupIdle /\ CoordsIdle /\ SuffixIdle

\* GameSpec::try_from(game_def)
Compile ==
    /\ compile_result = None
    /\ compile_result' = Some(GameSpec_try_from(game_def))
    /\ UNCHANGED game_def
    /\ CompileFrame

NextCompile == Compile

SpecCompile == InitCompile /\ [][NextCompile]_vars

\* every kind, resp. every position, of the definition converts on its own
KindsConvert ==
    \A i \in 1..Len(game_def.kind_defs) : KindSpec_try_from(game_def.kind_defs[i]).tag = "Ok"
PossConvert ==
    \A i \in 1..Len(game_def.pos_defs) : PosSpec_try_from(game_def.pos_defs[i]).tag = "Ok"
\* the collision of entry i of a list with the entries before it, the id
\* (written as key) before the label
CollisionOf(defs, i, key) ==
    IF \E j \in 1..(i - 1) : defs[j].id = defs[i].id
    THEN IdCollision(key)
    ELSE LabelCollision(defs[i].label)
KindCollision ==
    LET kd == game_def.kind_defs
        f  == FirstCollision(kd)
    IN  CollisionOf(kd, f, Kind(kd[f].id.lo))
PosCollision ==
    LET pd == game_def.pos_defs
        f  == FirstCollision(pd)
    IN  CollisionOf(pd, f, Pos(pd[f].id.lo))
\* both tables build
KindTableBuilds == KindsConvert /\ FirstCollision(game_def.kind_defs) = 0
PosTableBuilds == PossConvert /\ FirstCollision(game_def.pos_defs) = 0

\* C15: kinds that convert one by one and of which two share an id or a
\* label make compile fail with InvalidKindTable(c), c the collision of the
\* kind list in order; positions likewise with InvalidPosTable(c); an id or
\* a label shared between a kind and a position is no collision.
C15_TableCollisions ==
    compile_result.tag = "Some" =>
        /\ (KindsConvert /\ FirstCollision(game_def.kind_defs) # 0)
              => compile_result.val = Err(Error_InvalidKindTable(KindCollision))
        /\ (KindTableBuilds /\ PossConvert /\ FirstCollision(game_def.pos_defs) # 0)
              => compile_result.val = Err(Error_InvalidPosTable(PosCollision))
        /\ (KindTableBuilds /\ PosTableBuilds /\ compile_result.val.tag = "Err")
              => compile_result.val.err.tag = "InvalidNumPlayers"
C15_Witness ==
    /\ compile_result = Some(Err(Error_InvalidPosTable(IdCollision(Pos(2)))))
    /\ Len(game_def.kind_defs) = 2
    /\ \E i \in 1..2, j \in 1..2 :
          game_def.kind_defs[i].label = game_def.pos_defs[j].label

\* the first entry of a list that does not convert (0 when all do)
FirstFailing(defs, conv(_)) ==
    IF \E i \in 1..Len(defs) : conv(defs[i]).tag = "Err"
    THEN CHOOSE i \in 1..Len(defs) :
            conv(defs[i]).tag = "Err" /\ \A j \in 1..(i - 1) : conv(defs[j]).tag = "Ok"
    ELSE 0
\* a definition with a good id, no range, and rows of which two collide
HasRowCollision(def) ==
    InBounds(def.id) /\ def.suffix_range = None /\ FirstCollision(def.suffixes) # 0
RowCollision(sfx) ==
    LET f == FirstCollision(sfx) IN CollisionOf(sfx, f, as_i32(sfx[f].id))

\* C16: suffix rows of a kind that share an id or a label make compile fail
\* with InvalidKind(InvalidSuffixTable(c)), those of a position with
\* InvalidPos(InvalidSuffixTable(c)), c the collision of the rows in order,
\* the id before the label.
C16_SuffixRowCollisions ==
    compile_result.tag = "Some" =>
        LET kd == game_def.kind_defs
            pd == game_def.pos_defs
            kf == FirstFailing(kd, KindSpec_try_from)
            pf == FirstFailing(pd, PosSpec_try_from)
        IN  /\ (kf # 0 /\ HasRowCollision(kd[kf]))
                  => compile_result.val =
                        Err(Error_InvalidKind(InvalidSuffixTable(RowCollision(kd[kf].suffixes))))
            /\ (KindTableBuilds /\ pf # 0 /\ HasRowCollision(pd[pf]))
                  => compile_result.val =
                        Err(Error_InvalidPos(InvalidSuffixTable(RowCollision(pd[pf].suffixes))))
C16_Witness ==
    /\ compile_result = Some(Err(Error_InvalidKind(InvalidSuffixTable(IdCollision(2)))))
    /\ Len(game_def.kind_defs) = 2
    /\ KindSpec_try_from(game_def.kind_defs[1]).tag = "Ok"

\* a player count that fits 8 bits
Narrows(u) == u.hi = 0 /\ u.lo <= 255
ErrorTags == {"InvalidNumPlayers", "InvalidPos", "InvalidPosTable", "InvalidKind",
              "InvalidKindTable"}
Distinct(t) ==
    \A v, w \in StoredValues(t) : v # w => (v.id # w.id /\ v.label # w.label)

\* C17: compile returns a GameSpec exactly when every kind and position
\* converts, both tables build and both player counts narrow; otherwise it
\* returns one Error and no GameSpec.  A GameSpec returned holds every kind
\* and position of the definition, with distinct ids and distinct labels in
\* each table.
C17_AllOrNothing ==
    compile_result.tag = "Some" =>
        LET r == compile_result.val
        IN  /\ r.tag \in {"Ok", "Err"}
            /\ r.tag = "Ok" <=>
                  (/\ KindTableBuilds /\ PosTableBuilds
                   /\ Narrows(game_def.min_players) /\ Narrows(game_def.max_players))
            /\ r.tag = "Err" => (DOMAIN r = {"tag", "err"} /\ r.err.tag \in ErrorTags)
            /\ r.tag = "Ok" =>
                  /\ DOMAIN r = {"tag", "val"}
                  /\ Distinct(r.val.kind_specs) /\ Distinct(r.val.pos_specs)
                  /\ Cardinality(StoredValues(r.val.kind_specs)) = Len(game_def.kind_defs)
                  /\ Cardinality(StoredValues(r.val.pos_specs)) = Len(game_def.pos_defs)
C17_Witness ==
    /\ compile_result.tag = "Some" /\ compile_result.val.tag = "Ok"
    /\ Len(game_def.kind_defs) = 2 /\ Len(game_def.pos_defs) = 2

\* C18: with both tables built, a min_players above 255 fails with
\* InvalidNumPlayers(min_players) whatever max_players is, a max_players
\* above 255 fails with InvalidNumPlayers(max_players), and any other pair
\* is kept as given: 0 is accepted and so is min_players > max_players.
C18_PlayerCounts ==
    (compile_result.tag = "Some" /\ KindTableBuilds /\ PosTableBuilds) =>
        IF ~Narrows(game_def.min_players)
        THEN compile_result.val = Err(Error_InvalidNumPlayers(game_def.min_players))
        ELSE IF ~Narrows(game_def.max_players)
        THEN compile_result.val = Err(Error_InvalidNumPlayers(game_def.max_players))
        ELSE /\ compile_result.val.tag = "Ok"
             /\ compile_result.val.val.min_players = NatOf(game_def.min_players)
             /\ compile_result.val.val.max_players = NatOf(game_def.max_players)
C18_Witness ==
    /\ game_def.min_players = U32(0, 256) /\ game_def.max_players = U32_MAX
    /\ compile_result = Some(Err(Error_InvalidNumPlayers(U32(0, 256))))

\* the ItemError a definition gives on its own: the id before the suffixes
HasFault(def) ==
    ~InBounds(def.id) \/ convert_suffixes(def.suffix_range, def.suffixes).tag = "Err"
ItemFault(def) ==
    IF ~InBounds(def.id)
    THEN InvalidId(def.id)
    ELSE convert_suffixes(def.suffix_range, def.suffixes).err
FirstFaulty(defs) ==
    IF \E i \in 1..Len(defs) : HasFault(defs[i])
    THEN CHOOSE i \in 1..Len(defs) : HasFault(defs[i]) /\ \A j \in 1..(i - 1) : ~HasFault(defs[j])
    ELSE 0

\* C28: of several faults compile reports the first in this order: the
\* first kind that does not convert, the kind-table collision, the first
\* position that does not convert, the position-table collision,
\* min_players, max_players; within an item the id before the suffixes.
C28_FaultPriority ==
    compile_result.tag = "Some" =>
        LET kd == game_def.kind_defs
            pd == game_def.pos_defs
            r  == compile_result.val
        IN  IF FirstFaulty(kd) # 0
            THEN r = Err(Error_InvalidKind(ItemFault(kd[FirstFaulty(kd)])))
            ELSE IF FirstCollision(kd) # 0
            THEN r = Err(Error_InvalidKindTable(KindCollision))
            ELSE IF FirstFaulty(pd) # 0
            THEN r = Err(Error_InvalidPos(ItemFault(pd[FirstFaulty(pd)])))
            ELSE IF FirstCollision(pd) # 0
            THEN r = Err(Error_InvalidPosTable(PosCollision))
            ELSE IF ~Narrows(game_def.min_players)
            THEN r = Err(Error_InvalidNumPlayers(game_def.min_players))
            ELSE IF ~Narrows(game_def.max_players)
            THEN r = Err(Error_InvalidNumPlayers(game_def.max_players))
            ELSE r.tag = "Ok"
C28_Witness ==
    /\ Len(game_def.kind_defs) = 3
    /\ FirstCollision(SubSeq(game_def.kind_defs, 1, 2)) # 0
    /\ FirstFaulty(game_def.kind_defs) = 3
    /\ game_def.kind_defs[3].suffix_range = Some(SuffixRangeDef(5, 5))
    /\ FirstFaulty(game_def.pos_defs) # 0
    /\ ~Narrows(game_def.min_players)
    /\ compile_result = Some(Err(Error_InvalidKind(InvalidId(U32(1, 2)))))

====
